---- MODULE Spec2Model ----
(***************************************************************************)
(* The chat services of yuto-49/ai_website:                                *)
(*   src/server.py             chat handler with the agent system          *)
(*   src/docker/server_llm.py  router-first chat handler (LiteLLM, then    *)
(*                             direct Anthropic)                           *)
(*   src/docker/agents_config.py  the persona catalogue of the latter      *)
(*                                                                         *)
(* A text is a sequence of string pieces: the pieces of the f-strings and  *)
(* concatenations of the source, in order.  A piece taken from the request *)
(* or from a provider is an opaque string.                                 *)
(***************************************************************************)
EXTENDS Integers, Sequences, FiniteSets, TLC

\* ------------------------------------------------------------------ bounds
MaxTurns == 2
MaxParent == 2
MaxHistory == 2
MaxRequests == 2

\* --------------------------------------------------------- python values
\* Python's None, also what dict.get yields for a key that is absent.
None == "<None>"

\* Python truthiness of an optional string.
Truthy(s) == s # None /\ s # ""

\* str.strip(): a whitespace-only text strips to the empty string, padding
\* around a text is removed.
strip(s) ==
    CASE s = " " -> ""
      [] s = " SumA " -> "SumA"
      [] s = " Idea two " -> "Idea two"
      [] s = "\tIdea A " -> "Idea A"
      [] s = "  " -> ""
      [] OTHER -> s

\* ------------------------------------------------------ request contents
BASE_PROMPT == "You are a helpful AI assistant."

Turn(i) == [user |-> "u" \o ToString(i), assistant |-> "a" \o ToString(i)]

Msg(i) ==
    [sender |-> IF i % 2 = 1 THEN "user" ELSE "ai", text |-> "m" \o ToString(i)]

RecentTurnsSet == { [i \in 1..n |-> Turn(i)] : n \in 0..MaxTurns }
ParentMessagesSet == { [i \in 1..n |-> Msg(i)] : n \in 0..MaxParent }
Histories == { [i \in 1..n |-> Msg(i)] : n \in 0..MaxHistory }

\* A history longer than the 6 messages the agent reads.
LongHistory == [i \in 1..(6 + MaxHistory) |-> Msg(i)]

\* An entry of conversationMessages that is a JSON string, not an object.
NotADict == [sender |-> "<str>", text |-> "junk"]
is_dict(msg) == msg.sender # "<str>"

\* contextPack of the request body; present = FALSE is a body without one.
NoPack ==
    [present |-> FALSE, isTopicThread |-> FALSE, selectedText |-> "",
     parentMessages |-> <<>>, topicSummary |-> None, recentTurns |-> <<>>]

TopicPacks ==
    [present : {TRUE}, isTopicThread : {TRUE}, selectedText : {"", "sel"},
     parentMessages : ParentMessagesSet, topicSummary : {None, "", "S0"},
     recentTurns : RecentTurnsSet]

PlainPacks ==
    [present : {TRUE}, isTopicThread : {FALSE}, selectedText : {"sel"},
     parentMessages : {<<Msg(1)>>}, topicSummary : {None, "S0"},
     recentTurns : {<<Turn(1)>>}]

ContextPacks == {NoPack} \cup TopicPacks \cup PlainPacks

\* A topic thread with no summary yet, used with the agent system and the
\* personas.
FreshPack ==
    [present |-> TRUE, isTopicThread |-> TRUE, selectedText |-> "sel",
     parentMessages |-> <<Msg(1)>>, topicSummary |-> None,
     recentTurns |-> <<Turn(1)>>]

\* message of the request body: absent, empty, or a text.
Messages == {None, "", "hi"}

\* enabledAgents of the request body (hasEnabledAgents = FALSE: absent).
AgentLists ==
    {<<>>, <<"brainstorming">>, <<"nosuch">>, <<"nosuch", "brainstorming">>,
     <<"brainstorming", "brainstorming">>}

\* agent (persona) of the request body of server_llm.py.
PersonaIds == {None, "cloud-fast", "researcher", "nosuch"}

\* The request bodies of src/server.py.
ServerRequests ==
    [message : Messages, contextPack : ContextPacks,
     modelProvider : {"claude", "gemini"}, hasEnabledAgents : {FALSE},
     enabledAgents : {<<>>}, conversationMessages : {<<>>}, agent : {None}]
    \cup
    [message : {"hi"}, contextPack : {NoPack, FreshPack},
     modelProvider : {"claude", "gemini"}, hasEnabledAgents : {FALSE},
     enabledAgents : {<<>>}, conversationMessages : Histories \ {<<>>},
     agent : {None}]
    \cup
    [message : {"hi"}, contextPack : {NoPack, FreshPack},
     modelProvider : {"claude"}, hasEnabledAgents : {TRUE},
     enabledAgents : AgentLists, conversationMessages : Histories,
     agent : {None}]
    \cup
    [message : {"hi"}, contextPack : {NoPack},
     modelProvider : {"claude"}, hasEnabledAgents : {FALSE, TRUE},
     enabledAgents : {<<"brainstorming">>},
     conversationMessages : {<<NotADict>>, <<Msg(1), NotADict>>},
     agent : {None}]
    \cup
    [message : {"hi"}, contextPack : {NoPack},
     modelProvider : {"claude"}, hasEnabledAgents : {FALSE},
     enabledAgents : {<<>>},
     conversationMessages : {LongHistory, SubSeq(LongHistory, 1, 6)},
     agent : {None}]

\* The request bodies of src/docker/server_llm.py.
LLMRequests ==
    [message : Messages, contextPack : ContextPacks,
     modelProvider : {"claude"}, hasEnabledAgents : {FALSE},
     enabledAgents : {<<>>}, conversationMessages : {<<>>}, agent : {None}]
    \cup
    [message : {"hi"}, contextPack : {NoPack, FreshPack},
     modelProvider : {"claude"}, hasEnabledAgents : {FALSE},
     enabledAgents : {<<>>}, conversationMessages : {<<>>},
     agent : PersonaIds]

NoRequest ==
    [message |-> None, contextPack |-> NoPack, modelProvider |-> "claude",
     hasEnabledAgents |-> FALSE, enabledAgents |-> <<>>,
     conversationMessages |-> <<>>, agent |-> None]

\* ------------------------------------------------------ provider outcomes
Ok(t) == [ok |-> TRUE, text |-> t, kind |-> "", err |-> ""]
Fail(k, e) == [ok |-> FALSE, text |-> "", kind |-> k, err |-> e]

\* What the summary call of the provider can do.
SummaryOutcomes ==
    {Ok("SumA"), Ok(" SumA "), Ok("SumB"), Ok(" "), Fail("Exception", "E_sum")}

\* What a completion call of the Anthropic client can do (src/server.py): a
\* text, an anthropic.APIError (its str() naming not_found_error or not), or
\* another exception.
ClaudeOutcomes ==
    {Ok("R1"), Fail("APIError", "E_api"), Fail("APIError_not_found", "E_404"),
     Fail("Exception", "E_conn")}

\* What gemini_model.generate_content can do.
GeminiOutcomes == {Ok("G1"), Fail("Exception", "E_gem")}

\* What a call through the LiteLLM router, and a direct Anthropic call, can
\* do in src/docker/server_llm.py.
RouterOutcomes == {Ok("L1"), Fail("Exception", "E_router")}
DirectOutcomes == {Ok("D1"), Fail("Exception", "E_direct")}

\* ------------------------------------------------------------------ texts
RECURSIVE Join(_, _)
\* sep.join(parts), each part a text.
Join(parts, sep) ==
    IF parts = <<>> THEN <<>>
    ELSE IF Len(parts) = 1 THEN parts[1]
    ELSE parts[1] \o <<sep>> \o Join(Tail(parts), sep)

\* One line of a rendered conversation.
message_line(msg) ==
    <<IF msg.sender = "user" THEN "User" ELSE "Assistant", ": ", msg.text>>

\* The conversation rendered for a prompt.
conversation_context(msgs) ==
    Join([i \in 1..Len(msgs) |-> message_line(msgs[i])], "\n")

summary_prompt(parent_messages, selected_text) ==
    <<"You are creating a stable summary [...] selected this text:\n\"",
      selected_text, "\"\n\nParent conversation context:\n">>
    \o conversation_context(parent_messages)
    \o <<"\n\nCreate a concise summary (2-3 sentences) [...]">>

\* Mutant: the existing summary is not looked at.
needs_summary_ignoring_existing(cp) == cp.parentMessages # <<>>

\* The handler makes a summary call for this contextPack.
needs_summary(cp) == ~Truthy(cp.topicSummary) /\ cp.parentMessages # <<>>

\* Mutant: any contextPack is taken for a topic thread.
is_topic_thread_any(cp) == cp.present

\* The handler takes its topic-thread branch.
is_topic_thread(cp) == cp.present /\ cp.isTopicThread

\* What create_topic_summary returns for the outcome of its provider call.
summary_of(o) == IF o.ok THEN strip(o.text) ELSE None

\* context_parts: the long-term-memory part, then the selection part.
context_parts(topic_summary, selected_text) ==
    (IF Truthy(topic_summary)
       THEN << <<"Topic Context (Long-term Memory):\n", topic_summary>> >>
       ELSE <<>>)
    \o
    (IF selected_text # ""
       THEN << <<"\nThis topic thread was created from this selection:\n\"",
                 selected_text, "\"">> >>
       ELSE <<>>)

\* Mutant: the separator is appended whether or not a part is there.
topic_system_prompt_unguarded(base, topic_summary, selected_text) ==
    <<base, "\n\n">>
    \o Join(context_parts(topic_summary, selected_text), "\n")

\* The system prompt of a topic thread.
topic_system_prompt(base, topic_summary, selected_text) ==
    LET parts == context_parts(topic_summary, selected_text)
    IN  IF parts # <<>> THEN <<base, "\n\n">> \o Join(parts, "\n")
        ELSE <<base>>

RECURSIVE turns_from(_, _)
\* The loop over enumerate(recent_turns, start).
turns_from(recent_turns, start) ==
    IF recent_turns = <<>> THEN <<>>
    ELSE <<"\nTurn ", ToString(start), ":\nUser: ", Head(recent_turns).user,
           "\nAssistant: ", Head(recent_turns).assistant, "\n">>
         \o turns_from(Tail(recent_turns), start + 1)

\* Mutant: enumerate(recent_turns) without its start.
working_memory_from0(recent_turns) ==
    <<"\n\nRecent conversation (Working Memory):\n">>
    \o turns_from(recent_turns, 0)

working_memory(recent_turns) ==
    <<"\n\nRecent conversation (Working Memory):\n">>
    \o turns_from(recent_turns, 1)

\* user_message after the topic-thread branch.
topic_user_message(user_message, recent_turns) ==
    IF recent_turns # <<>>
      THEN working_memory(recent_turns)
           \o <<"\nCurrent message:\n", user_message>>
      ELSE <<user_message>>

\* ------------------------------------------------------------- responses
NoBody ==
    [response |-> None, model |-> None, backend |-> None, agent |-> None,
     topicSummary |-> None, hasAgentResults |-> FALSE,
     agentResults |-> <<>>, error |-> <<>>]

NoResponse == [status |-> 0, body |-> NoBody]

ErrorResponse(status, text) ==
    [status |-> status, body |-> [NoBody EXCEPT !.error = text]]

\* The except clauses of chat in src/server.py.
server_error_text(o) ==
    CASE o.kind = "APIError" -> <<"Anthropic API Error: ", o.err>>
      [] o.kind = "APIError_not_found" ->
           <<"Anthropic API Error: ", o.err, "\n\nPossible causes:",
             "\n1. Model name is incorrect or deprecated",
             "\n2. Your API key doesn't have access to this model",
             "\n3. Check Anthropic console for available models">>
      [] OTHER -> <<o.err>>

\* One call of a provider, as the provider sees it.
Call(svc, backend, model, system, content, temperature, max_tokens, o) ==
    [svc |-> svc, backend |-> backend, model |-> model, system |-> system,
     content |-> content, temperature |-> temperature,
     max_tokens |-> max_tokens, ok |-> o.ok, text |-> o.text, err |-> o.err]

\* ----------------------------------------------------------- agent system

\* AgentRegistry.get_agent_config: the catalogue holds one agent.
registered(agent_type) == agent_type = "brainstorming"

AgentRegistry_get_agent_config(agent_type) ==
    [name |-> "Brainstorming Agent", model |-> "claude-3-haiku-20240307",
     max_tokens |-> 300, temperature |-> "0.9", enabled |-> TRUE,
     execution |-> "parallel"]

\* AgentRegistry.get_enabled_agents
get_enabled_agents == <<"brainstorming">>

\* Mutant: the two branches of the partition loop are swapped.
is_parallel_swapped(agent_type) ==
    /\ registered(agent_type)
    /\ AgentRegistry_get_agent_config(agent_type).enabled
    /\ AgentRegistry_get_agent_config(agent_type).execution # "parallel"

\* The test of the partition loop of run_agents, and its two branches.
is_parallel(agent_type) ==
    /\ registered(agent_type)
    /\ AgentRegistry_get_agent_config(agent_type).enabled
    /\ AgentRegistry_get_agent_config(agent_type).execution = "parallel"

is_sequential(agent_type) ==
    /\ registered(agent_type)
    /\ AgentRegistry_get_agent_config(agent_type).enabled
    /\ AgentRegistry_get_agent_config(agent_type).execution # "parallel"

parallel_agents(enabled_agents) == SelectSeq(enabled_agents, is_parallel)
sequential_agents(enabled_agents) == SelectSeq(enabled_agents, is_sequential)

\* What the completion call of the brainstorming agent can do.
AgentOutcomes ==
    {Ok("B1"), Ok("B2"), Ok("B3"), Fail("Exception", "E_agent")}

\* text.split('\n') of the texts the provider returns to the agent.
split_lines(text) ==
    CASE text = "B1" ->
           <<"Idea one", " Idea two ", "", "ab", "Idea three", "Idea four">>
      [] text = "B2" -> <<"Only idea">>
      [] text = "B3" -> <<"\tIdea A ", "  ", "ab", "Idea B", "abcd">>
      [] OTHER -> <<text>>

\* Mutant: the whole history is rendered.
last6_all(messages) == messages

\* messages[-6:]
last6(messages) ==
    IF Len(messages) <= 6 THEN messages
    ELSE SubSeq(messages, Len(messages) - 5, Len(messages))

brainstorm_prompt(messages) ==
    <<"Based on this conversation, generate 1-3 [...]\n\nConversation:\n">>
    \o conversation_context(last6(messages))
    \o <<"\n\nRequirements: [...]">>

keep_line(line) == strip(line) # "" /\ Len(strip(line)) > 3

\* Mutant: the list comprehension without its cut.
parse_ideas_uncut(response_text) ==
    LET kept == SelectSeq(split_lines(strip(response_text)), keep_line)
    IN  [i \in 1..Len(kept) |-> strip(kept[i])]

\* The list comprehension of the agent, cut to 3 entries.
parse_ideas(response_text) ==
    LET kept == SelectSeq(split_lines(strip(response_text)), keep_line)
        ideas == [i \in 1..Len(kept) |-> strip(kept[i])]
    IN  IF Len(ideas) <= 3 THEN ideas ELSE SubSeq(ideas, 1, 3)

AgentResult(success, hasIdeas, ideas, hasError, error, agent) ==
    [success |-> success, hasIdeas |-> hasIdeas, ideas |-> ideas,
     hasError |-> hasError, error |-> error, agent |-> agent]

\* What the task of the brainstorming agent returns or raises, for the
\* outcome of its provider call: the try/except of the agent returns on both.
execute_brainstorming_agent(o) ==
    IF o.ok
      THEN [raised |-> FALSE, err |-> "",
            value |-> AgentResult(TRUE, TRUE, parse_ideas(o.text), FALSE, "",
                                  "brainstorming")]
      ELSE [raised |-> FALSE, err |-> "",
            value |-> AgentResult(FALSE, TRUE, <<>>, TRUE, o.err,
                                  "brainstorming")]

\* The list comprehension that renders the conversation stands before the
\* try of the agent: msg.get raises AttributeError on an entry that is not
\* a dict.
conversation_text_raises(messages) ==
    \E i \in 1..Len(last6(messages)) : ~is_dict(last6(messages)[i])

ATTRIBUTE_ERROR == "'str' object has no attribute 'get'"

\* What the task of the pool returns or raises.
task_outcome(messages, o) ==
    IF conversation_text_raises(messages)
      THEN [raised |-> TRUE, err |-> ATTRIBUTE_ERROR,
            value |-> AgentResult(FALSE, FALSE, <<>>, FALSE, "", "")]
      ELSE execute_brainstorming_agent(o)

\* str() of the TimeoutError of future.result(timeout=10): it has no args.
TIMEOUT_TEXT == ""

\* Mutant: the except clause records the failure without its error.
failed_result_without_error(agent_type, error) ==
    AgentResult(FALSE, FALSE, <<>>, FALSE, "", agent_type)

\* The except clause of the collecting loop of run_agents.
failed_result(agent_type, error) ==
    AgentResult(FALSE, FALSE, <<>>, TRUE, error, agent_type)

\* Mutant: the except clause of the collecting loop does not catch the
\* timeout of future.result.
collect_result_timeout_uncaught(agent_type, done, task_result) ==
    IF done /\ ~task_result.raised
      THEN [raised |-> FALSE, err |-> "", value |-> task_result.value]
    ELSE IF done
      THEN [raised |-> FALSE, err |-> "",
            value |-> failed_result(agent_type, task_result.err)]
    ELSE [raised |-> TRUE, err |-> TIMEOUT_TEXT,
          value |-> failed_result(agent_type, TIMEOUT_TEXT)]

\* Mutant: the collecting loop has no except clause.
collect_result_uncaught(agent_type, done, task_result) ==
    IF done /\ ~task_result.raised
      THEN [raised |-> FALSE, err |-> "", value |-> task_result.value]
    ELSE IF done
      THEN [raised |-> TRUE, err |-> task_result.err,
            value |-> failed_result(agent_type, task_result.err)]
    ELSE [raised |-> TRUE, err |-> TIMEOUT_TEXT,
          value |-> failed_result(agent_type, TIMEOUT_TEXT)]

\* The try/except of the collecting loop: what results[agent_type] becomes
\* for a future that returned, raised or timed out; raised = TRUE when the
\* failure leaves run_agents.
collect_result(agent_type, done, task_result) ==
    IF done /\ ~task_result.raised
      THEN [raised |-> FALSE, err |-> "", value |-> task_result.value]
    ELSE IF done
      THEN [raised |-> FALSE, err |-> "",
            value |-> failed_result(agent_type, task_result.err)]
    ELSE [raised |-> FALSE, err |-> "",
          value |-> failed_result(agent_type, TIMEOUT_TEXT)]

NoTaskResult ==
    [raised |-> FALSE, err |-> "",
     value |-> AgentResult(FALSE, FALSE, <<>>, FALSE, "", "")]

Task(agent_type, messages) ==
    [agent |-> agent_type, state |-> "queued", messages |-> messages,
     result |-> NoTaskResult]

\* dict assignment d[key] = value on a dict kept as its items in insertion
\* order.
dict_set(d, key, value) ==
    IF \E i \in 1..Len(d) : d[i].key = key
      THEN [i \in 1..Len(d) |->
              IF d[i].key = key THEN [key |-> key, value |-> value] ELSE d[i]]
      ELSE Append(d, [key |-> key, value |-> value])

RECURSIVE submit_all_unoffset(_, _, _)
\* Mutant: the futures are looked up from the start of the pool, not from
\* where the tasks of this run begin.
submit_all_unoffset(agents, base, futures) ==
    IF agents = <<>> THEN futures
    ELSE IF Head(agents) = "brainstorming"
      THEN submit_all_unoffset(Tail(agents), base + 1,
                               dict_set(futures, Head(agents), Len(futures) + 1))
    ELSE submit_all_unoffset(Tail(agents), base, futures)

RECURSIVE submit_all(_, _, _)
\* The submitting loop of run_agents: futures after the agents of `agents`
\* were submitted as the tasks base+1, base+2, ... of the pool.
submit_all(agents, base, futures) ==
    IF agents = <<>> THEN futures
    ELSE IF Head(agents) = "brainstorming"
      THEN submit_all(Tail(agents), base + 1,
                      dict_set(futures, Head(agents), base + 1))
    ELSE submit_all(Tail(agents), base, futures)

\* The tasks that loop hands to the pool.
submitted_tasks(agents, messages) ==
    LET mine == SelectSeq(agents, LAMBDA a : a = "brainstorming")
    IN  [i \in 1..Len(mine) |-> Task(mine[i], messages)]

\* ------------------------------------------------------------------ state
VARIABLES
    server,            \* which program runs: "server" or "server_llm"
    gemini_model,      \* server.py: GOOGLE_API_KEY was set
    litellm_client,    \* server_llm.py: LITELLM_BASE_URL was set
    anthropic_client,  \* server_llm.py: ANTHROPIC_API_KEY was set
    served,            \* requests answered so far
    pc,                \* where the request thread is in chat
    data,              \* the request body
    healthy,           \* the backends whose primary completion call would
                       \* succeed for this request
    user_message,      \* data.get('message', '')
    agent_type,        \* server_llm.py: data.get('agent', DEFAULT_AGENT)
    system_prompt,     \* text
    prompt_message,    \* text: user_message as sent to the provider
    topic_summary,
    response_data,
    calls,             \* the provider calls of this request, in order
    http,              \* the response of this request
    pool,              \* the tasks of the process-wide executor, in
                       \* submission order
    futures,           \* run_agents: the futures dict
    cursor,            \* run_agents: the future the collecting loop is at
    agent_results      \* run_agents: the results dict

config == <<server, gemini_model, litellm_client, anthropic_client>>
locals ==
    <<user_message, agent_type, system_prompt, prompt_message, topic_summary,
      response_data>>
agent_vars == <<pool, futures, cursor, agent_results>>
request == <<data, healthy>>
vars == <<config, served, pc, request, locals, calls, http, agent_vars>>

Init ==
    /\ server \in {"server", "server_llm"}
    /\ gemini_model \in BOOLEAN
    /\ litellm_client \in BOOLEAN
    /\ anthropic_client \in BOOLEAN
    /\ server = "server" => ~litellm_client /\ ~anthropic_client
    /\ server = "server_llm" => ~gemini_model
    /\ served = 0
    /\ pc = "idle"
    /\ data = NoRequest
    /\ healthy = {}
    /\ user_message = ""
    /\ agent_type = None
    /\ system_prompt = <<>>
    /\ prompt_message = <<>>
    /\ topic_summary = None
    /\ response_data = NoBody
    /\ calls = <<>>
    /\ http = NoResponse
    /\ pool = <<>>
    /\ futures = <<>>
    /\ cursor = 0
    /\ agent_results = <<>>

\* The backends the handler can turn to for the primary completion of a
\* request.
backends_for(body) ==
    IF server = "server"
      THEN {IF body.modelProvider = "gemini" THEN "gemini" ELSE "claude"}
      ELSE {b \in {"litellm", "anthropic-direct"} :
              \/ b = "litellm" /\ litellm_client
              \/ b = "anthropic-direct" /\ anthropic_client}

\* The outcomes a primary completion call of a backend can have for this
\* request.
primary_outcomes(backend, outcomes) ==
    {o \in outcomes : o.ok = (backend \in healthy)}

\* A request reaches /api/chat.
receive ==
    /\ pc = "idle"
    /\ data' \in IF server = "server" THEN ServerRequests ELSE LLMRequests
    /\ healthy' \in SUBSET backends_for(data')
    /\ pc' = "validate"
    /\ UNCHANGED <<config, served, locals, calls, http, agent_vars>>

\* Mutant: a failure of the primary completion is answered, and the
\* handler goes on to its agents.
respond_error_resuming(status, text) ==
    /\ http' = ErrorResponse(status, text)
    /\ pc' = IF pc = "primary" /\ server = "server" THEN "agents" ELSE "done"

\* The handler ends with an error response (a return of jsonify(error), or
\* an except clause of chat).
respond_error(status, text) ==
    /\ http' = ErrorResponse(status, text)
    /\ pc' = "done"

\* ------------------------------------------------- src/server.py: chat
\* data.get('message', '')
get_message(body) == IF body.message = None THEN "" ELSE body.message

\* Mutant: only a missing message is refused, not an empty one.
no_message_none_only(message) == message = None

\* "if not user_message"
no_message(message) == ~Truthy(message)

chat_validate ==
    /\ server = "server" /\ pc = "validate"
    /\ user_message' = get_message(data)
    /\ IF no_message(user_message')
         THEN respond_error(400, <<"No message provided">>)
         ELSE pc' = "assemble" /\ UNCHANGED http
    /\ UNCHANGED <<config, served, request, agent_type, system_prompt,
                   prompt_message, topic_summary, response_data, calls,
                   agent_vars>>

\* Mutant: the failure of the provider call is not caught.
create_topic_summary_uncaught(o) ==
    IF o.ok THEN [raised |-> FALSE, err |-> "", value |-> strip(o.text)]
    ELSE [raised |-> TRUE, err |-> o.err, value |-> None]

\* create_topic_summary of src/server.py for the outcome o of its provider
\* call: the try/except returns None on a failure.
create_topic_summary(o) ==
    IF o.ok THEN [raised |-> FALSE, err |-> "", value |-> strip(o.text)]
    ELSE [raised |-> FALSE, err |-> "", value |-> None]

summary_call(cp, o) ==
    Call("summary", "claude", "claude-3-haiku-20240307", <<>>,
         summary_prompt(cp.parentMessages, cp.selectedText), "default", 200, o)

\* The context assembly of chat.
chat_assemble ==
    /\ server = "server" /\ pc = "assemble"
    /\ LET cp == data.contextPack
       IN  IF is_topic_thread(cp)
             THEN \E o \in IF needs_summary(cp) THEN SummaryOutcomes
                           ELSE {Ok(None)} :
                    LET r == IF needs_summary(cp) THEN create_topic_summary(o)
                             ELSE [raised |-> FALSE, err |-> "",
                                   value |-> cp.topicSummary]
                    IN  /\ calls' = IF needs_summary(cp)
                                      THEN Append(calls, summary_call(cp, o))
                                      ELSE calls
                        /\ IF r.raised
                             THEN /\ respond_error(500, <<r.err>>)
                                  /\ UNCHANGED <<topic_summary, system_prompt,
                                                 prompt_message>>
                             ELSE /\ topic_summary' = r.value
                                  /\ system_prompt' =
                                       topic_system_prompt(BASE_PROMPT,
                                           r.value, cp.selectedText)
                                  /\ prompt_message' =
                                       topic_user_message(user_message,
                                                          cp.recentTurns)
                                  /\ pc' = "primary"
                                  /\ UNCHANGED http
             ELSE /\ system_prompt' = <<BASE_PROMPT>>
                  /\ prompt_message' = <<user_message>>
                  /\ pc' = "primary"
                  /\ UNCHANGED <<topic_summary, calls, http>>
    /\ UNCHANGED <<config, served, request, user_message, agent_type,
                   response_data, agent_vars>>

\* The prompt handed to Gemini, which takes no system prompt.
gemini_prompt(system, message) ==
    IF system # <<BASE_PROMPT>> THEN system \o <<"\n\n">> \o message
    ELSE message

\* The system parameter of the Claude call: only a customised prompt.
claude_system(system) == IF system # <<BASE_PROMPT>> THEN system ELSE <<>>

\* Mutant: the Gemini branch does not look at its configuration.
gemini_missing_unchecked == FALSE

\* "if not gemini_model"
gemini_missing == ~gemini_model

\* The primary completion of chat, and its response_data.
chat_primary ==
    /\ server = "server" /\ pc = "primary"
    /\ IF data.modelProvider = "gemini"
         THEN IF gemini_missing
                THEN /\ respond_error(500, <<"Gemini API key not configured. Add GOOGLE_API_KEY to your .env file.">>)
                     /\ UNCHANGED <<calls, response_data>>
                ELSE \E o \in primary_outcomes("gemini", GeminiOutcomes) :
                       /\ calls' = Append(calls,
                            Call("primary", "gemini", "gemini-1.5-flash", <<>>,
                                 gemini_prompt(system_prompt, prompt_message),
                                 "default", 0, o))
                       /\ IF o.ok
                            THEN /\ response_data' =
                                      [NoBody EXCEPT !.response = o.text,
                                                     !.model = "gemini-1.5-flash"]
                                 /\ pc' = "topic_summary"
                                 /\ UNCHANGED http
                            ELSE /\ respond_error(500, server_error_text(o))
                                 /\ UNCHANGED response_data
         ELSE \E o \in primary_outcomes("claude", ClaudeOutcomes) :
                /\ calls' = Append(calls,
                     Call("primary", "claude", "claude-3-haiku-20240307",
                          claude_system(system_prompt), prompt_message,
                          "default", 2048, o))
                /\ IF o.ok
                     THEN /\ response_data' =
                               [NoBody EXCEPT !.response = o.text,
                                              !.model = "claude-3-haiku-20240307"]
                          /\ pc' = "topic_summary"
                          /\ UNCHANGED http
                     ELSE /\ respond_error(500, server_error_text(o))
                          /\ UNCHANGED response_data
    /\ UNCHANGED <<config, served, request, user_message, agent_type,
                   system_prompt, prompt_message, topic_summary, agent_vars>>

\* "Include topic summary if this is a topic thread and we created one".
chat_topic_summary ==
    /\ server = "server" /\ pc = "topic_summary"
    /\ LET cp == data.contextPack
       IN  IF is_topic_thread(cp) /\ needs_summary(cp)
             THEN \E o \in SummaryOutcomes :
                    LET r == create_topic_summary(o)
                    IN  /\ calls' = Append(calls, summary_call(cp, o))
                        /\ IF r.raised
                             THEN /\ respond_error(500, <<r.err>>)
                                  /\ UNCHANGED <<topic_summary, response_data>>
                             ELSE /\ topic_summary' = r.value
                                  /\ response_data' =
                                       IF Truthy(r.value)
                                         THEN [response_data EXCEPT
                                                 !.topicSummary = r.value]
                                         ELSE response_data
                                  /\ pc' = "agents"
                                  /\ UNCHANGED http
             ELSE /\ pc' = "agents"
                  /\ UNCHANGED <<topic_summary, response_data, calls, http>>
    /\ UNCHANGED <<config, served, request, user_message, agent_type,
                   system_prompt, prompt_message, agent_vars>>

\* run_agents up to the end of its submitting loop, called by chat when the
\* request carries a conversation.
chat_run_agents ==
    /\ server = "server" /\ pc = "agents"
    /\ LET conv == data.conversationMessages
           enabled_agents == IF data.hasEnabledAgents THEN data.enabledAgents
                             ELSE get_enabled_agents
           par == parallel_agents(enabled_agents)
       IN  IF conv # <<>>
             THEN /\ pool' = pool \o submitted_tasks(par, conv)
                  /\ futures' = submit_all(par, Len(pool), <<>>)
                  /\ cursor' = 1
                  /\ pc' = "collect"
             ELSE /\ pc' = "return"
                  /\ UNCHANGED <<pool, futures, cursor>>
    /\ agent_results' = <<>>
    /\ UNCHANGED <<config, served, request, locals, calls, http>>

\* One turn of the collecting loop of run_agents: future.result(timeout=10)
\* returns what the task returned, or raises what it raised, or times out
\* while the task is not done.
run_agents_collect ==
    /\ server = "server" /\ pc = "collect"
    /\ cursor <= Len(futures)
    /\ LET f == futures[cursor]
           t == pool[f.value]
           r == collect_result(f.key, t.state = "done", t.result)
       IN    (   IF r.raised
                   THEN /\ respond_error(500, <<r.err>>)
                        /\ UNCHANGED <<agent_results, cursor>>
                   ELSE /\ agent_results' =
                             dict_set(agent_results, f.key, r.value)
                        /\ cursor' = cursor + 1
                        /\ UNCHANGED <<pc, http>>)
    /\ UNCHANGED <<config, served, request, locals, calls, pool, futures>>

\* Mutant: the mapping is put into the response without the test that it
\* is not empty.
chat_return_unguarded ==
    /\ server = "server"
    /\ \/ pc = "return"
       \/ pc = "collect" /\ cursor > Len(futures)
    /\ http' = [status |-> 200,
                body |-> [response_data EXCEPT
                            !.hasAgentResults = TRUE,
                            !.agentResults = agent_results]]
    /\ pc' = "done"
    /\ UNCHANGED <<config, served, request, locals, calls, agent_vars>>

\* The end of run_agents (its sequential loop does nothing) and of chat.
chat_return ==
    /\ server = "server"
    /\ \/ pc = "return"
       \/ pc = "collect" /\ cursor > Len(futures)
    /\ http' = [status |-> 200,
                body |-> IF agent_results # <<>>
                           THEN [response_data EXCEPT
                                   !.hasAgentResults = TRUE,
                                   !.agentResults = agent_results]
                           ELSE response_data]
    /\ pc' = "done"
    /\ UNCHANGED <<config, served, request, locals, calls, agent_vars>>

\* Mutant: the pool grows with the tasks handed to it.
max_workers_unbounded == Len(pool) + 1

\* ThreadPoolExecutor(max_workers=5)
max_workers == 5

\* A worker thread of the executor takes the oldest queued task.
worker_start ==
    /\ Cardinality({i \in 1..Len(pool) : pool[i].state = "running"})
         < max_workers
    /\ \E i \in 1..Len(pool) :
         /\ pool[i].state = "queued"
         /\ \A j \in 1..(i - 1) : pool[j].state # "queued"
         /\ pool' = [pool EXCEPT ![i].state = "running"]
    /\ UNCHANGED <<config, served, pc, request, locals, calls, http, futures,
                   cursor, agent_results>>

\* The tasks of the pool that the request at hand has submitted: the last
\* ones, as many as run_agents has found parallel agents.
own_tasks ==
    IF pc \in {"collect", "done"} /\ futures # <<>>
      THEN LET n == Len(parallel_agents(IF data.hasEnabledAgents
                                         THEN data.enabledAgents
                                         ELSE get_enabled_agents))
           IN  (Len(pool) - n + 1)..Len(pool)
      ELSE {}

\* The provider call of a running task ends, and with it the task; the call
\* is logged with the request that submitted the task.  The outcome of a
\* task is kept in its future: that of a request already answered is
\* referenced by nothing, and its outcome is kept nowhere.
worker_finish ==
    /\ \E i \in 1..Len(pool), o \in AgentOutcomes :
         /\ pool[i].state = "running"
         /\ pool' = [pool EXCEPT ![i].state = "done",
                                 ![i].result =
                                   IF i \in own_tasks
                                     THEN task_outcome(pool[i].messages, o)
                                     ELSE NoTaskResult]
         /\ calls' =
              IF conversation_text_raises(pool[i].messages) \/ i \notin own_tasks
                THEN calls
              ELSE Append(calls,
                Call("agent", "claude", AgentRegistry_get_agent_config(pool[i].agent).model,
                     <<>>, brainstorm_prompt(pool[i].messages),
                     AgentRegistry_get_agent_config(pool[i].agent).temperature,
                     AgentRegistry_get_agent_config(pool[i].agent).max_tokens, o))
    /\ UNCHANGED <<config, served, pc, request, locals, http, futures, cursor,
                   agent_results>>

\* The request is answered; the next one arrives once the pool is idle.
next_request ==
    /\ pc = "done"
    /\ served < MaxRequests
    /\ \A i \in 1..Len(pool) : pool[i].state = "done"
    /\ served' = served + 1
    /\ pc' = "idle"
    /\ data' = NoRequest
    /\ healthy' = {}
    /\ user_message' = ""
    /\ agent_type' = None
    /\ system_prompt' = <<>>
    /\ prompt_message' = <<>>
    /\ topic_summary' = None
    /\ response_data' = NoBody
    /\ calls' = <<>>
    /\ http' = NoResponse
    /\ pool' = <<>>
    /\ futures' = <<>>
    /\ cursor' = 0
    /\ agent_results' = <<>>
    /\ UNCHANGED config

\* The requests that keep the pool busy: a conversation, and the agent
\* named once, after an unknown id, or twice.
PoolRequests ==
    [message : {"hi"}, contextPack : {NoPack}, modelProvider : {"claude"},
     hasEnabledAgents : {TRUE},
     enabledAgents : {<<"nosuch", "brainstorming">>,
                      <<"brainstorming", "brainstorming">>},
     conversationMessages : {<<Msg(1)>>}, agent : {None}]

\* Such a request reaches /api/chat of src/server.py.
receive_busy ==
    /\ pc = "idle"
    /\ data' \in PoolRequests
    /\ healthy' = backends_for(data')
    /\ pc' = "validate"
    /\ UNCHANGED <<config, served, locals, calls, http, agent_vars>>

\* The tasks the executor still holds: those that have not ended.
unfinished(tasks) == SelectSeq(tasks, LAMBDA t : t.state # "done")

\* The request is answered and the next one arrives, whatever the pool is
\* doing: the executor belongs to the process, and the tasks of an answered
\* request that have not ended stay in it.
next_request_busy ==
    /\ pc = "done"
    /\ served < MaxRequests
    /\ served' = served + 1
    /\ pc' = "idle"
    /\ data' = NoRequest
    /\ healthy' = {}
    /\ user_message' = ""
    /\ agent_type' = None
    /\ system_prompt' = <<>>
    /\ prompt_message' = <<>>
    /\ topic_summary' = None
    /\ response_data' = NoBody
    /\ calls' = <<>>
    /\ http' = NoResponse
    /\ pool' = unfinished(pool)
    /\ futures' = <<>>
    /\ cursor' = 0
    /\ agent_results' = <<>>
    /\ UNCHANGED config

\* --------------------------------------- src/docker/agents_config.py
AGENTS ==
    ("general" :>
        [model |-> "agent-balanced", system_prompt |-> BASE_PROMPT,
         temperature |-> "0.7", max_tokens |-> 2048]) @@
    ("fast" :>
        [model |-> "agent-fast",
         system_prompt |-> "You are a quick and efficient assistant. [...]",
         temperature |-> "0.7", max_tokens |-> 1024]) @@
    ("researcher" :>
        [model |-> "agent-powerful",
         system_prompt |-> "You are an expert research assistant. [...]",
         temperature |-> "0.5", max_tokens |-> 4096]) @@
    ("coder" :>
        [model |-> "agent-coder",
         system_prompt |-> "You are an expert programming assistant. [...]",
         temperature |-> "0.3", max_tokens |-> 4096]) @@
    ("cloud-fast" :>
        [model |-> "agent-cloud-fast", system_prompt |-> BASE_PROMPT,
         temperature |-> "0.7", max_tokens |-> 2048]) @@
    ("cloud-expert" :>
        [model |-> "agent-cloud-balanced",
         system_prompt |-> "You are an expert AI assistant [...]",
         temperature |-> "0.7", max_tokens |-> 4096]) @@
    ("creative" :>
        [model |-> "agent-balanced",
         system_prompt |-> "You are a creative writing assistant. [...]",
         temperature |-> "0.9", max_tokens |-> 4096]) @@
    ("teacher" :>
        [model |-> "agent-cloud-balanced",
         system_prompt |-> "You are a patient teaching assistant. [...]",
         temperature |-> "0.6", max_tokens |-> 3072])

DEFAULT_AGENT == "general"

get_agent_config(agent) ==
    IF agent = None \/ agent \notin DOMAIN AGENTS THEN AGENTS[DEFAULT_AGENT]
    ELSE AGENTS[agent]

\* ------------------------------------ src/docker/server_llm.py: chat
\* "claude" in model, for the model names of the catalogue and of the
\* direct calls.
contains_claude(model) ==
    model \in {"claude-3-haiku-20240307", "claude-3-sonnet-20240229",
               "claude-3-opus-20240229"}

\* The handler falls back to the direct Anthropic call after a failure of
\* the router.
falls_back(agent_config) ==
    anthropic_client /\ contains_claude(agent_config.model)

\* call_litellm puts a system prompt, when given one, first in messages.
litellm_call(svc, model, system, content, temperature, max_tokens, o) ==
    Call(svc, "litellm", model, system, content, temperature, max_tokens, o)

\* call_anthropic_direct
anthropic_call(svc, model, system, content, temperature, max_tokens, o) ==
    Call(svc, "anthropic-direct", model, system, content, temperature,
         max_tokens, o)

\* The provider call create_topic_summary makes, if it makes one.
llm_summary_backend ==
    IF litellm_client THEN "litellm"
    ELSE IF anthropic_client THEN "anthropic-direct"
    ELSE None

llm_summary_call(cp, o) ==
    LET prompt == summary_prompt(cp.parentMessages, cp.selectedText)
    IN  IF litellm_client
          THEN litellm_call("summary", get_agent_config("fast").model, <<>>,
                            prompt, "0.5", 200, o)
          ELSE anthropic_call("summary", "claude-3-haiku-20240307", <<>>,
                              prompt, "0.5", 200, o)

\* create_topic_summary of server_llm.py for the outcome o of its provider
\* call; with no client it makes no call and returns None.
llm_create_topic_summary(o) ==
    IF llm_summary_backend = None
      THEN [raised |-> FALSE, err |-> "", value |-> None]
    ELSE IF o.ok THEN [raised |-> FALSE, err |-> "", value |-> strip(o.text)]
    ELSE [raised |-> FALSE, err |-> "", value |-> None]

llm_chat_validate ==
    /\ server = "server_llm" /\ pc = "validate"
    /\ user_message' = get_message(data)
    /\ agent_type' = IF data.agent = None THEN DEFAULT_AGENT ELSE data.agent
    /\ IF no_message(user_message')
         THEN respond_error(400, <<"No message provided">>)
         ELSE pc' = "assemble" /\ UNCHANGED http
    /\ UNCHANGED <<config, served, request, system_prompt, prompt_message,
                   topic_summary, response_data, calls, agent_vars>>

llm_chat_assemble ==
    /\ server = "server_llm" /\ pc = "assemble"
    /\ LET cp == data.contextPack
           base == get_agent_config(agent_type).system_prompt
           calling == needs_summary(cp) /\ llm_summary_backend # None
       IN  IF is_topic_thread(cp)
             THEN \E o \in IF calling THEN SummaryOutcomes ELSE {Ok(None)} :
                    LET r == IF needs_summary(cp)
                               THEN llm_create_topic_summary(o)
                               ELSE [raised |-> FALSE, err |-> "",
                                     value |-> cp.topicSummary]
                    IN  /\ calls' = IF calling
                                      THEN Append(calls, llm_summary_call(cp, o))
                                      ELSE calls
                        /\ IF r.raised
                             THEN /\ respond_error(500, <<r.err>>)
                                  /\ UNCHANGED <<topic_summary, system_prompt,
                                                 prompt_message>>
                             ELSE /\ topic_summary' = r.value
                                  /\ system_prompt' =
                                       topic_system_prompt(base, r.value,
                                                           cp.selectedText)
                                  /\ prompt_message' =
                                       topic_user_message(user_message,
                                                          cp.recentTurns)
                                  /\ pc' = "primary"
                                  /\ UNCHANGED http
             ELSE /\ system_prompt' = <<base>>
                  /\ prompt_message' = <<user_message>>
                  /\ pc' = "primary"
                  /\ UNCHANGED <<topic_summary, calls, http>>
    /\ UNCHANGED <<config, served, request, user_message, agent_type,
                   response_data, agent_vars>>

\* response_data for the result of a backend.
llm_response(text, model, backend) ==
    [NoBody EXCEPT !.response = text, !.model = model, !.backend = backend,
                   !.agent = agent_type]

\* "Call appropriate LLM backend", and response_data.
llm_chat_primary ==
    /\ server = "server_llm" /\ pc = "primary"
    /\ LET cfg == get_agent_config(agent_type)
           router(o) == litellm_call("primary", cfg.model, system_prompt,
                            prompt_message, cfg.temperature, cfg.max_tokens, o)
           direct(o) == anthropic_call("primary", "claude-3-haiku-20240307",
                            system_prompt, prompt_message, cfg.temperature,
                            cfg.max_tokens, o)
       IN  IF litellm_client
             THEN \E o \in primary_outcomes("litellm", RouterOutcomes) :
                    IF o.ok
                      THEN /\ calls' = Append(calls, router(o))
                           /\ response_data' =
                                llm_response(o.text, cfg.model, "litellm")
                           /\ pc' = "topic_summary"
                           /\ UNCHANGED http
                    ELSE IF falls_back(cfg)
                      THEN \E o2 \in primary_outcomes("anthropic-direct",
                                                     DirectOutcomes) :
                             /\ calls' = calls \o <<router(o), direct(o2)>>
                             /\ IF o2.ok
                                  THEN /\ response_data' =
                                            llm_response(o2.text,
                                              "claude-3-haiku-20240307",
                                              "anthropic-direct")
                                       /\ pc' = "topic_summary"
                                       /\ UNCHANGED http
                                  ELSE /\ respond_error(500, <<o2.err>>)
                                       /\ UNCHANGED response_data
                    ELSE /\ calls' = Append(calls, router(o))
                         /\ respond_error(500, <<"No LLM backend available">>)
                         /\ UNCHANGED response_data
           ELSE IF anthropic_client
             THEN \E o \in primary_outcomes("anthropic-direct", DirectOutcomes) :
                    /\ calls' = Append(calls, direct(o))
                    /\ IF o.ok
                         THEN /\ response_data' =
                                   llm_response(o.text,
                                     "claude-3-haiku-20240307",
                                     "anthropic-direct")
                              /\ pc' = "topic_summary"
                              /\ UNCHANGED http
                         ELSE /\ respond_error(500, <<o.err>>)
                              /\ UNCHANGED response_data
           ELSE /\ respond_error(500, <<"No LLM backend available">>)
                /\ UNCHANGED <<calls, response_data>>
    /\ UNCHANGED <<config, served, request, user_message, agent_type,
                   system_prompt, prompt_message, topic_summary, agent_vars>>

\* "Include topic summary if needed", and the return of chat.
llm_chat_topic_summary ==
    /\ server = "server_llm" /\ pc = "topic_summary"
    /\ LET cp == data.contextPack
           calling == needs_summary(cp) /\ llm_summary_backend # None
       IN  IF is_topic_thread(cp) /\ needs_summary(cp)
             THEN \E o \in IF calling THEN SummaryOutcomes ELSE {Ok(None)} :
                    LET r == llm_create_topic_summary(o)
                    IN  /\ calls' = IF calling
                                      THEN Append(calls, llm_summary_call(cp, o))
                                      ELSE calls
                        /\ IF r.raised
                             THEN /\ respond_error(500, <<r.err>>)
                                  /\ UNCHANGED topic_summary
                             ELSE /\ topic_summary' = r.value
                                  /\ http' =
                                       [status |-> 200,
                                        body |-> IF Truthy(r.value)
                                                   THEN [response_data EXCEPT
                                                     !.topicSummary = r.value]
                                                   ELSE response_data]
                                  /\ pc' = "done"
             ELSE /\ http' = [status |-> 200, body |-> response_data]
                  /\ pc' = "done"
                  /\ UNCHANGED <<topic_summary, calls>>
    /\ UNCHANGED <<config, served, request, user_message, agent_type,
                   system_prompt, prompt_message, response_data, agent_vars>>

\* ---------------------------------------------------------- specification
Next ==
    \/ receive
    \/ chat_validate
    \/ chat_assemble
    \/ chat_primary
    \/ chat_topic_summary
    \/ chat_run_agents
    \/ run_agents_collect
    \/ chat_return
    \/ worker_start
    \/ worker_finish
    \/ llm_chat_validate
    \/ llm_chat_assemble
    \/ llm_chat_primary
    \/ llm_chat_topic_summary
    \/ next_request

Spec == Init /\ [][Next]_vars

\* src/server.py under requests that follow one another while the tasks of
\* the earlier ones are still in the pool.
PoolInit == Init /\ server = "server" /\ ~gemini_model

PoolNext ==
    \/ receive_busy
    \/ chat_validate
    \/ chat_assemble
    \/ chat_primary
    \/ chat_topic_summary
    \/ chat_run_agents
    \/ run_agents_collect
    \/ chat_return
    \/ worker_start
    \/ worker_finish
    \/ next_request_busy

PoolSpec == PoolInit /\ [][PoolNext]_vars

\* The request thread keeps running: future.result(timeout=10) returns or
\* raises within its timeout, and the handler returns.  Nothing is assumed
\* of the workers: a provider call of an agent may never return.
FairSpec ==
    Spec /\ WF_vars(run_agents_collect) /\ WF_vars(chat_return)

\* ============================================================ properties
summary_calls == SelectSeq(calls, LAMBDA c : c.svc = "summary")
primary_calls == SelectSeq(calls, LAMBDA c : c.svc = "primary")

\* The request was answered.
answered == pc = "done"
pack == data.contextPack

\* The pieces of a text, as a set.
Pieces(text) == {text[i] : i \in 1..Len(text)}

\* The system prompt a primary call carried: Gemini gets it as the head of
\* its one prompt.
sent_system(c) == IF c.backend = "gemini" THEN c.content ELSE c.system

LTM_HEADER == "Topic Context (Long-term Memory):\n"

\* The summary a prompt carries in its long-term-memory block, None without
\* such a block.
prompt_summary(text) ==
    IF \E i \in 1..Len(text) : text[i] = LTM_HEADER
      THEN text[(CHOOSE i \in 1..Len(text) : text[i] = LTM_HEADER) + 1]
      ELSE None

\* C1: a topic-thread request with no topicSummary and a non-empty
\* parentMessages that is answered with 200 made exactly one summary call,
\* and the topicSummary of the response is the result of that call.
C1_ExactlyOneSummaryCall ==
    (/\ answered /\ http.status = 200
     /\ is_topic_thread(pack)
     /\ pack.topicSummary = None /\ pack.parentMessages # <<>>)
    => /\ Len(summary_calls) = 1
       /\ http.body.topicSummary = summary_of(summary_calls[1])

\* C2: for a topic-thread request that carries a (non-empty) topicSummary,
\* no summary call is ever made, in any request of the run, and the system
\* prompt of every primary call carries exactly that summary in its
\* long-term-memory block.
C2_ExistingSummaryReused ==
    (is_topic_thread(pack) /\ Truthy(pack.topicSummary))
    => /\ summary_calls = <<>>
       /\ \A i \in 1..Len(primary_calls) :
            /\ prompt_summary(sent_system(primary_calls[i]))
                 = pack.topicSummary
            /\ Cardinality({k \in 1..Len(sent_system(primary_calls[i])) :
                  sent_system(primary_calls[i])[k] = LTM_HEADER}) = 1

\* A repeated request with a summary and parent messages was answered.
C2_Witness ==
    /\ served >= 1 /\ answered /\ http.status = 200
    /\ is_topic_thread(pack) /\ Truthy(pack.topicSummary)
    /\ pack.parentMessages # <<>>
    /\ primary_calls # <<>>

\* A summary was generated in this request and used for its prompt.
used_generated_summary ==
    /\ summary_calls # <<>>
    /\ primary_calls # <<>>
    /\ Truthy(prompt_summary(sent_system(primary_calls[1])))

\* C3: the response carries topicSummary iff a summary was generated in
\* this request: never when the request supplied one, never outside a topic
\* thread, and always when one was generated and used for the prompt.
C3_SummaryIffGenerated ==
    (answered /\ http.status = 200)
    => /\ Truthy(pack.topicSummary) => http.body.topicSummary = None
       /\ ~is_topic_thread(pack) => http.body.topicSummary = None
       /\ used_generated_summary => http.body.topicSummary # None
       /\ http.body.topicSummary # None =>
            \E i \in 1..Len(summary_calls) :
              summary_of(summary_calls[i]) = http.body.topicSummary

\* The configured backends of this request that would succeed on its
\* primary completion.
configured_healthy == {b \in healthy : b = "gemini" => gemini_model}

\* C4: a request (past validation) for which a configured backend would
\* succeed on the primary completion is answered with 200 and the text of
\* such a backend, whatever its summary calls and its agents did.
C4_AnyProviderSuccessGives200 ==
    (answered /\ data.message \notin {None, ""} /\ configured_healthy # {})
    => /\ http.status = 200
       /\ \E i \in 1..Len(primary_calls) :
            /\ primary_calls[i].ok
            /\ primary_calls[i].backend \in configured_healthy
            /\ http.body.response = primary_calls[i].text

\* C4, the part the handlers keep: a request whose primary completion call
\* succeeded is answered with 200 and the text of that call, whatever its
\* summary calls and its agents did.
C4_ProviderSuccessGives200 ==
    (answered /\ \E i \in 1..Len(primary_calls) : primary_calls[i].ok)
    => /\ http.status = 200
       /\ primary_calls[Len(primary_calls)].ok
       /\ http.body.response = primary_calls[Len(primary_calls)].text

\* A 200 although a summary call failed and an agent failed or timed out.
C4_Witness ==
    /\ answered /\ http.status = 200
    /\ \E i \in 1..Len(summary_calls) : ~summary_calls[i].ok
    /\ \E i \in 1..Len(agent_results) : ~agent_results[i].value.success

\* The agents run_agents resolves for this request.
working_set ==
    parallel_agents(IF data.hasEnabledAgents THEN data.enabledAgents
                    ELSE get_enabled_agents)

\* The entry of a dict kept as its items.
dict_get(d, key) == d[CHOOSE i \in 1..Len(d) : d[i].key = key].value
dict_has(d, key) == \E i \in 1..Len(d) : d[i].key = key

C6_FallbackInvoked ==
    (/\ server = "server_llm" /\ answered
     /\ litellm_client /\ anthropic_client
     /\ primary_calls # <<>> /\ ~primary_calls[1].ok)
    => /\ Len(primary_calls) = 2
       /\ primary_calls[2].backend = "anthropic-direct"
       /\ primary_calls[2].content = primary_calls[1].content
       /\ primary_calls[2].system = primary_calls[1].system
       /\ primary_calls[2].temperature = primary_calls[1].temperature
       /\ primary_calls[2].max_tokens = primary_calls[1].max_tokens
       /\ ~primary_calls[2].ok =>
            http.status = 500 /\ http.body.error = <<primary_calls[2].err>>

\* C7: when the last primary call failed and no configured provider was
\* left to fall back to, the response is a 500 whose error text holds the
\* message of that failure.
C7_UnderlyingMessageSurfaced ==
    LET last == primary_calls[Len(primary_calls)]
    IN  (/\ answered /\ primary_calls # <<>> /\ ~last.ok
         /\ \/ server = "server"
            \/ last.backend = "anthropic-direct"
            \/ ~anthropic_client)
        => /\ http.status = 500
           /\ last.err \in Pieces(http.body.error)

\* C8: a request with no message, or an empty one, ends with 400 at its
\* validation, with no provider call and no agent task.
C8_NoMessageIs400 ==
    (pc \notin {"idle", "validate"} /\ data.message \in {None, ""})
    => /\ pc = "done" /\ http.status = 400
       /\ calls = <<>>
       /\ pool = <<>>

\* A request for a topic thread in want of a summary, but with no message.
C8_Witness ==
    /\ answered /\ http.status = 400
    /\ data.message = None
    /\ is_topic_thread(pack) /\ needs_summary(pack)

\* No completion provider is configured for the request.
unconfigured ==
    \/ server = "server" /\ data.modelProvider = "gemini" /\ ~gemini_model
    \/ server = "server_llm" /\ ~litellm_client /\ ~anthropic_client

\* C9: with no completion provider configured for it, a request makes no
\* primary completion call, and (past validation) is answered with 500.
C9_NoProviderIs500 ==
    (pc # "idle" /\ unconfigured)
    => /\ primary_calls = <<>>
       /\ (answered /\ data.message \notin {None, ""}) => http.status = 500

\* Gemini was asked for without its key: a 500 after the summary call.
C9_Witness ==
    /\ answered /\ http.status = 500
    /\ server = "server" /\ data.modelProvider = "gemini" /\ ~gemini_model
    /\ summary_calls # <<>>

\* The user message a primary call carried: Gemini gets it after the
\* customised system prompt and a blank line.
sent_user(c) ==
    IF c.backend = "gemini" /\ system_prompt # <<BASE_PROMPT>>
      THEN SubSeq(c.content, Len(system_prompt) + 2, Len(c.content))
      ELSE c.content

\* C10: for a topic thread with recentTurns, the user message of every
\* primary call is the working-memory header, then one block per turn,
\* numbered from 1 in input order with the turn's User and Assistant texts,
\* then the current-message marker, then the message of the request.
C10_WorkingMemoryBlock ==
    (is_topic_thread(pack) /\ pack.recentTurns # <<>>)
    => \A k \in 1..Len(primary_calls) :
         LET u == sent_user(primary_calls[k])
             n == Len(pack.recentTurns)
         IN  /\ Len(u) = 7 * n + 3
             /\ u[1] = "\n\nRecent conversation (Working Memory):\n"
             /\ \A i \in 1..n :
                  /\ u[7 * i - 5] = "\nTurn "
                  /\ u[7 * i - 4] = ToString(i)
                  /\ u[7 * i - 3] = ":\nUser: "
                  /\ u[7 * i - 2] = pack.recentTurns[i].user
                  /\ u[7 * i - 1] = "\nAssistant: "
                  /\ u[7 * i] = pack.recentTurns[i].assistant
                  /\ u[7 * i + 1] = "\n"
             /\ u[7 * n + 2] = "\nCurrent message:\n"
             /\ u[7 * n + 3] = data.message

\* A primary call went out for a topic thread with two turns or more.
C10_Witness ==
    /\ is_topic_thread(pack) /\ Len(pack.recentTurns) >= 2
    /\ primary_calls # <<>>

\* The base prompt of the handler: the constant of src/server.py, the
\* persona's prompt in src/docker/server_llm.py.
base_prompt ==
    IF server = "server" THEN BASE_PROMPT
    ELSE get_agent_config(agent_type).system_prompt

\* The summary the handler resolved for the prompt of this request: the one
\* of the request, else what its first summary call gave, else none.
resolved_summary ==
    IF Truthy(pack.topicSummary) THEN pack.topicSummary
    ELSE IF summary_calls # <<>> /\ summary_calls[1].ok
      THEN strip(summary_calls[1].text)
    ELSE ""

SELECTION_HEADER == "\nThis topic thread was created from this selection:\n\""

\* C11: once a topic-thread request is assembled, its system prompt is the
\* base prompt alone when the resolved summary and the selected text are
\* both empty; else the base prompt, a blank line, the long-term-memory
\* block with the resolved summary if that is not empty, then (after a line
\* break if both are there) the selection block if the selected text is not
\* empty; and the primary call carries that prompt (src/server.py sends it
\* only when it is not the bare base prompt).
C11_SystemPromptParts ==
    (is_topic_thread(pack) /\ pc \notin {"idle", "validate", "assemble"}
     /\ system_prompt # <<>>)
    => LET s == resolved_summary
           x == pack.selectedText
           expected ==
             CASE s = "" /\ x = "" -> <<base_prompt>>
               [] s # "" /\ x = "" -> <<base_prompt, "\n\n", LTM_HEADER, s>>
               [] s = "" /\ x # "" ->
                    <<base_prompt, "\n\n", SELECTION_HEADER, x, "\"">>
               [] OTHER ->
                    <<base_prompt, "\n\n", LTM_HEADER, s, "\n",
                      SELECTION_HEADER, x, "\"">>
       IN  /\ system_prompt = expected
           /\ \A i \in 1..Len(primary_calls) :
                LET c == primary_calls[i]
                IN  CASE c.backend = "gemini" ->
                           IF expected = <<BASE_PROMPT>>
                             THEN c.content = prompt_message
                             ELSE SubSeq(c.content, 1, Len(expected)) = expected
                      [] c.backend = "claude" ->
                           c.system = IF expected = <<BASE_PROMPT>> THEN <<>>
                                      ELSE expected
                      [] OTHER -> c.system = expected

\* A primary call went out with a generated summary and a selection in its
\* system prompt.
C11_Witness ==
    /\ is_topic_thread(pack) /\ primary_calls # <<>>
    /\ pack.topicSummary = None /\ resolved_summary # ""
    /\ pack.selectedText # ""

\* A primary call went out for a topic thread whose summary call gave only
\* blanks and that has no selected text.
C11_WitnessBare ==
    /\ is_topic_thread(pack) /\ primary_calls # <<>>
    /\ summary_calls # <<>> /\ summary_calls[1].ok
    /\ resolved_summary = "" /\ pack.selectedText = ""

\* A request outside a topic thread, with no conversation history, a
\* message and a configured provider, was answered.
plain_answered ==
    /\ answered /\ ~(pack.present /\ pack.isTopicThread)
    /\ data.conversationMessages = <<>>
    /\ data.message \notin {None, ""}
    /\ ~unconfigured

\* C12 as stated: such a request made exactly one primary call, whose one
\* user message is the message of the request and whose system prompt is
\* the base prompt, made no summary call, and its response has no
\* agentResults.
C12_PlainRequestCall ==
    plain_answered
    => /\ Len(primary_calls) = 1
       /\ primary_calls[1].content = <<data.message>>
       /\ primary_calls[1].system = <<base_prompt>>
       /\ summary_calls = <<>>
       /\ ~http.body.hasAgentResults

\* C12, amended: such a request made exactly one primary call, whose one
\* user message is the message of the request; the assembled system prompt
\* is the base prompt, which src/docker/server_llm.py hands to the provider
\* and src/server.py, sending a system prompt only when it is customised,
\* does not; no summary call was made, no agent task was submitted and the
\* response has no agentResults.
C12_PlainRequestCallAmended ==
    plain_answered
    => /\ Len(primary_calls) = 1
       /\ primary_calls[1].content = <<data.message>>
       /\ system_prompt = <<base_prompt>>
       /\ primary_calls[1].system =
            IF server = "server" THEN <<>> ELSE <<base_prompt>>
       /\ summary_calls = <<>>
       /\ calls = primary_calls
       /\ pool = <<>>
       /\ ~http.body.hasAgentResults
       /\ http.body.topicSummary = None

\* A request whose contextPack is not a topic thread, though it carries
\* parent messages, was answered with 200.
C12_Witness ==
    /\ plain_answered /\ http.status = 200
    /\ pack.present /\ pack.parentMessages # <<>>

\* C13: after a summary call that failed, the request goes on: its system
\* prompt has no long-term-memory block, its primary completion is
\* attempted (unless no provider is configured for it), the failure of the
\* summary call is never the error of the response, and the request is
\* answered with 200 whenever its primary completion succeeded.
C13_SummaryFailureAbsorbed ==
    (/\ pc \notin {"idle", "validate", "assemble"}
     /\ summary_calls # <<>> /\ ~summary_calls[1].ok)
    => /\ LTM_HEADER \notin Pieces(system_prompt)
       /\ \A i \in 1..Len(primary_calls) :
            LTM_HEADER \notin Pieces(sent_system(primary_calls[i]))
       /\ pc = "primary" \/ primary_calls # <<>> \/ unconfigured
       /\ \A i \in 1..Len(summary_calls) :
            summary_calls[i].err = ""
            \/ summary_calls[i].err \notin Pieces(http.body.error)
       /\ (answered /\ primary_calls # <<>>
            /\ primary_calls[Len(primary_calls)].ok) => http.status = 200

\* A request whose summary call failed was answered with 200, its prompt
\* carrying the selection block alone.
C13_Witness ==
    /\ answered /\ http.status = 200
    /\ summary_calls # <<>> /\ ~summary_calls[1].ok
    /\ primary_calls # <<>> /\ primary_calls[1].ok
    /\ SELECTION_HEADER \in Pieces(sent_system(primary_calls[1]))

\* run_agents was called for this request and has submitted its tasks.
agents_ran ==
    /\ server = "server" /\ data.conversationMessages # <<>>
    /\ \/ pc = "collect"
       \/ answered /\ http.status = 200

\* The ids of the enabled agent definitions of the registry.
ENABLED_DEFINITIONS == {"brainstorming"}

\* The ids the request asks for: those of enabledAgents, every enabled
\* agent when the request has no enabledAgents.
requested_ids ==
    IF data.hasEnabledAgents
      THEN {data.enabledAgents[i] : i \in 1..Len(data.enabledAgents)}
      ELSE ENABLED_DEFINITIONS

dict_keys(d) == {d[i].key : i \in 1..Len(d)}

\* C14: in a run of run_agents the ids that got a task, the ids of the
\* futures and (at the return) the ids of the returned mapping are the
\* requested ids that are enabled definitions, all enabled definitions when
\* the request names none: an unknown id has no task and no entry, every id
\* of the working set has both.
C14_WorkingSet ==
    agents_ran
    => LET expected == requested_ids \cap ENABLED_DEFINITIONS
       IN  /\ {pool[i].agent : i \in 1..Len(pool)} = expected
           /\ dict_keys(futures) = expected
           /\ dict_keys(agent_results) \subseteq expected
           /\ answered =>
                /\ dict_keys(http.body.agentResults) = expected
                /\ http.body.hasAgentResults = (expected # {})

\* A run that was asked for an unknown id and for a known one has returned.
C14_Witness ==
    /\ agents_ran /\ answered
    /\ data.hasEnabledAgents
    /\ data.enabledAgents = <<"nosuch", "brainstorming">>
    /\ dict_keys(http.body.agentResults) = {"brainstorming"}

\* A run with no enabledAgents in the request has returned.
C14_WitnessDefault ==
    /\ agents_ran /\ answered
    /\ ~data.hasEnabledAgents
    /\ dict_keys(http.body.agentResults) = {"brainstorming"}

\* C15: in a run of run_agents every agent of the working set gets exactly
\* one task, and so is executed once, and one entry of the returned mapping,
\* whatever list of ids the request carries.
C15_OncePerAgent ==
    agents_ran
    => \A a \in requested_ids \cap ENABLED_DEFINITIONS :
         /\ Cardinality({i \in 1..Len(pool) : pool[i].agent = a}) = 1
         /\ Cardinality({i \in 1..Len(calls) :
               calls[i].svc = "agent"}) <= 1
         /\ answered =>
              Cardinality({i \in 1..Len(http.body.agentResults) :
                 http.body.agentResults[i].key = a}) = 1

\* An AgentResult that is a success with its payload and no error.
full_success(e) == e.success /\ e.hasIdeas /\ ~e.hasError

\* An AgentResult that is a failure with its error and no payload but an
\* empty one.
full_failure(e) ==
    ~e.success /\ e.hasError /\ (e.hasIdeas => e.ideas = <<>>)

C16_WitnessTimeout ==
    /\ answered /\ http.status = 200 /\ http.body.hasAgentResults
    /\ \E i \in 1..Len(futures) :
         /\ pool[futures[i].value].state # "done"
         /\ full_failure(dict_get(http.body.agentResults, futures[i].key))

\* The response holds the failure the agent returned for its provider call.
C16_WitnessAgentFailure ==
    /\ answered /\ http.status = 200 /\ http.body.hasAgentResults
    /\ \E i \in 1..Len(http.body.agentResults) :
         /\ full_failure(http.body.agentResults[i].value)
         /\ http.body.agentResults[i].value.error = "E_agent"

\* The response holds a success with three ideas.
C16_WitnessSuccess ==
    /\ answered /\ http.status = 200 /\ http.body.hasAgentResults
    /\ \E i \in 1..Len(http.body.agentResults) :
         /\ full_success(http.body.agentResults[i].value)
         /\ Len(http.body.agentResults[i].value.ideas) = 3

\* C17: when run_agents has returned, every task it submitted was awaited:
\* it is the task of an entry of futures, and the returned mapping holds
\* for that entry the outcome of the task (what it returned, the failure
\* it raised) or its timeout.
C17_AllTasksSettled ==
    (agents_ran /\ answered)
    => \A t \in 1..Len(pool) :
         \E i \in 1..Len(futures) :
           /\ futures[i].value = t
           /\ dict_has(http.body.agentResults, futures[i].key)
           /\ LET e == dict_get(http.body.agentResults, futures[i].key)
              IN  \/ /\ pool[t].state = "done" /\ ~pool[t].result.raised
                     /\ e = pool[t].result.value
                  \/ /\ pool[t].state = "done" /\ pool[t].result.raised
                     /\ e = failed_result(futures[i].key, pool[t].result.err)
                  \/ e = failed_result(futures[i].key, TIMEOUT_TEXT)

\* The collecting loop is at a task that is not done.
at_timeout ==
    /\ pc = "collect" /\ cursor <= Len(futures)
    /\ pool[futures[cursor].value].state # "done"

\* C18: when the collecting loop takes its turn at a task that is not done,
\* it records the timeout failure for that agent, leaves every task of the
\* pool as it is and goes on to the next future; and a run of run_agents
\* that is collecting always comes to its end, whether or not the workers
\* ever finish.
C18_TimeoutProceeds ==
    /\ [][(at_timeout /\ cursor' # cursor)
           => /\ dict_has(agent_results', futures[cursor].key)
              /\ dict_get(agent_results', futures[cursor].key)
                   = AgentResult(FALSE, FALSE, <<>>, TRUE, "",
                                 futures[cursor].key)
              /\ pool' = pool
              /\ cursor' = cursor + 1
              /\ pc' = "collect" /\ http' = http]_vars
    /\ [][(at_timeout /\ pool' = pool) => pc' # "done"]_vars
    /\ (pc = "collect") ~> answered

\* The request was answered with the failure of a timeout, and the task
\* that was waited for has ended since, with a success.
C18_Witness ==
    /\ answered /\ http.status = 200
    /\ Len(futures) = 1 /\ Len(pool) = 1
    /\ pool[1].state = "done" /\ pool[1].result.value.success
    /\ dict_get(http.body.agentResults, "brainstorming")
         = failed_result("brainstorming", TIMEOUT_TEXT)

\* The request was answered while its task is still running.
C18_WitnessRunning ==
    /\ answered /\ http.status = 200
    /\ Len(pool) = 1 /\ pool[1].state = "running"
    /\ ~dict_get(http.body.agentResults, "brainstorming").success

\* The tasks of the pool that are executing.
executing(tasks) == {i \in 1..Len(tasks) : tasks[i].state = "running"}

\* C19: never more than 5 tasks of the pool execute at the same time,
\* whichever requests they come from; a task is queued when it is submitted,
\* and a queued task starts only in a step before which fewer than 5 tasks
\* were executing.
C19_PoolBound ==
    /\ [](Cardinality(executing(pool)) <= 5)
    /\ [][Len(pool') > Len(pool)
           => \A i \in (Len(pool) + 1)..Len(pool') : pool'[i].state = "queued"]_vars
    /\ [][(Len(pool') = Len(pool) /\ pool' # pool
            /\ \E i \in 1..Len(pool) :
                 pool[i].state = "queued" /\ pool'[i].state = "running")
           => Cardinality(executing(pool)) < 5]_vars

\* Five tasks execute, among them tasks of requests already answered with
\* a timeout, and the task the current request waits for is queued.
C19_Witness ==
    /\ pc = "collect" /\ served = 2
    /\ Cardinality(executing(pool)) = 5
    /\ Len(pool) = 6 /\ pool[6].state = "queued"
    /\ \E i \in 1..Len(futures) : futures[i].value = 6

\* C21: agent tasks exist only for a request with a non-empty conversation
\* history, and the response of an answered request has the agentResults
\* field, then not empty, exactly when the request was answered with 200
\* and an agent task was submitted for it; with no history, or with no
\* requested id that is an enabled definition, the field is absent.
C21_AgentResultsIffRan ==
    /\ pool # <<>> => server = "server" /\ data.conversationMessages # <<>>
    /\ answered =>
         /\ http.body.hasAgentResults = (http.status = 200 /\ pool # <<>>)
         /\ http.body.hasAgentResults = (http.body.agentResults # <<>>)
         /\ (\/ data.conversationMessages = <<>>
             \/ requested_ids \cap ENABLED_DEFINITIONS = {})
            => ~http.body.hasAgentResults /\ pool = <<>>

\* A request with a history whose enabledAgents names no known agent was
\* answered with 200.
C21_Witness ==
    /\ answered /\ http.status = 200 /\ server = "server"
    /\ data.conversationMessages # <<>>
    /\ data.hasEnabledAgents /\ data.enabledAgents = <<"nosuch">>
    /\ ~http.body.hasAgentResults

\* A request that asks for the agent but has no history was answered.
C21_WitnessNoHistory ==
    /\ answered /\ http.status = 200 /\ server = "server"
    /\ data.conversationMessages = <<>>
    /\ data.hasEnabledAgents /\ data.enabledAgents = <<"brainstorming">>

\* A request with a history was answered with the results of its agent.
C21_WitnessRan ==
    /\ answered /\ http.status = 200 /\ http.body.hasAgentResults

\* The positions of the calls of a service in the log of the request.
calls_of(svc) == {i \in 1..Len(calls) : calls[i].svc = svc}

\* C22: while a task of the request is in the pool, the primary completion
\* of the request has been made and has succeeded, no summary call and no
\* primary call is made any more, and in the log of the request every
\* summary call and the primary call stand before every call of an agent;
\* a request whose primary completion failed has no task.
C22_AgentsAfterPrimary ==
    /\ [](pool # <<>>
           => /\ pc \in {"collect", "done"}
              /\ primary_calls # <<>>
              /\ primary_calls[Len(primary_calls)].ok
              /\ \A i \in calls_of("agent") :
                   \A j \in calls_of("summary") \cup calls_of("primary") :
                     j < i)
    /\ []((primary_calls # <<>> /\ ~primary_calls[Len(primary_calls)].ok)
           => pool = <<>> /\ calls_of("agent") = {})
    /\ [][(pool' # <<>>)
           => /\ Cardinality(calls_of("summary")')
                   = Cardinality(calls_of("summary"))
              /\ Cardinality(calls_of("primary")')
                   = Cardinality(calls_of("primary"))]_vars

\* The tasks of a topic-thread request were submitted after its two summary
\* calls and its primary call, and one has made its provider call.
C22_Witness ==
    /\ pool # <<>>
    /\ Cardinality(calls_of("summary")) = 2
    /\ calls_of("agent") # {}

\* A request with a history was answered with the failure of its primary
\* completion.
C22_WitnessFailed ==
    /\ answered /\ http.status = 500 /\ server = "server"
    /\ data.conversationMessages # <<>>
    /\ primary_calls # <<>>

\* The ideas the agent is to give for the texts of the provider: B1 has six
\* lines, four of them neither blank nor short; B2 has one line; B3 has
\* five lines, one of blanks and one of 2 characters.
expected_ideas(text) ==
    CASE text = "B1" -> <<"Idea one", "Idea two", "Idea three">>
      [] text = "B2" -> <<"Only idea">>
      [] text = "B3" -> <<"Idea A", "Idea B", "abcd">>
      [] OTHER -> <<>>

\* C23: the prompt of every call of the brainstorming agent renders the
\* last 6 messages of the history of its request, all of them when there
\* are fewer, one line each, in the order of the history; and a task whose
\* provider call gave a text has for its ideas the first three, at most,
\* of the lines of the text that are neither blank nor shorter than four
\* characters once stripped, each stripped, in their order.
C23_BrainstormingAgent ==
    /\ \A c \in calls_of("agent") :
         LET h == data.conversationMessages
             n == IF Len(h) < 6 THEN Len(h) ELSE 6
             u == calls[c].content
         IN  /\ Len(u) = 4 * n + 1
             /\ \A k \in 1..n :
                  /\ u[4 * k - 2] = IF h[Len(h) - n + k].sender = "user"
                                      THEN "User" ELSE "Assistant"
                  /\ u[4 * k - 1] = ": "
                  /\ u[4 * k] = h[Len(h) - n + k].text
                  /\ k < n => u[4 * k + 1] = "\n"
             /\ calls[c].ok =>
                  \E t \in 1..Len(pool) :
                    /\ pool[t].state = "done"
                    /\ pool[t].result.value.success
                    /\ pool[t].result.value.ideas
                         = expected_ideas(calls[c].text)
    /\ \A t \in 1..Len(pool) :
         (pool[t].state = "done" /\ pool[t].result.value.success)
         => /\ Len(pool[t].result.value.ideas) <= 3
            /\ \E c \in calls_of("agent") :
                 /\ calls[c].ok
                 /\ pool[t].result.value.ideas = expected_ideas(calls[c].text)

\* The agent was run on a history of more than 6 messages, and its provider
\* gave the text of five lines.
C23_Witness ==
    /\ Len(data.conversationMessages) > 6
    /\ \E c \in calls_of("agent") : calls[c].ok /\ calls[c].text = "B3"
    /\ answered /\ http.body.hasAgentResults
    /\ dict_get(http.body.agentResults, "brainstorming").ideas
         = <<"Idea A", "Idea B", "abcd">>

\* The agent's provider gave the text with four lines to keep.
C23_WitnessCut ==
    /\ \E c \in calls_of("agent") : calls[c].ok /\ calls[c].text = "B1"
    /\ answered /\ http.body.hasAgentResults
    /\ Len(dict_get(http.body.agentResults, "brainstorming").ideas) = 3

\* C24: the mapping of a run is written by its collecting loop alone, one
\* slot a turn: the slot of the agent whose future the loop is at, never
\* written before, with the outcome of a task this request submitted for
\* that agent and the other slots left as they are; what the tasks of the
\* pool do, those of other requests included, changes no slot.  Every key
\* is an id of the working set and is the agent named in its result.
C24_DisjointSlots ==
    /\ [](\A i \in 1..Len(agent_results) :
            /\ agent_results[i].key
                 \in requested_ids \cap ENABLED_DEFINITIONS
            /\ agent_results[i].value.agent = agent_results[i].key
            /\ \A j \in 1..Len(agent_results) :
                 agent_results[j].key = agent_results[i].key => j = i)
    /\ [][(agent_results' # agent_results /\ agent_results' # <<>>)
           => /\ pc = "collect" /\ cursor <= Len(futures)
              /\ pool' = pool
              /\ LET key == futures[cursor].key
                     t == futures[cursor].value
                 IN  /\ ~dict_has(agent_results, key)
                     /\ agent_results'
                          = Append(agent_results,
                                   [key |-> key,
                                    value |-> dict_get(agent_results', key)])
                     /\ t \in own_tasks
                     /\ pool[t].agent = key
                     /\ pool[t].messages = data.conversationMessages
                     /\ (pool[t].state = "done" /\ ~pool[t].result.raised)
                        => dict_get(agent_results', key)
                             = pool[t].result.value]_vars
    /\ [][pool' # pool => agent_results' = agent_results
                          \/ agent_results' = <<>>]_vars

\* The mapping of the request holds the result of its own task, and a task
\* of an answered request has ended in the pool since that request was
\* answered.
C24_Witness ==
    /\ pc = "collect" /\ served >= 1
    /\ agent_results # <<>>
    /\ \E t \in 1..Len(pool) :
         /\ t \notin own_tasks
         /\ pool[t].state = "done"
    /\ \E t \in own_tasks :
         /\ pool[t].state = "done"
         /\ pool[t].result.value = agent_results[1].value

\* C25: for a topic-thread request with no summary of its own that is
\* answered with 200, the summary in the long-term-memory block of the
\* system prompt its primary call carried and the topicSummary of the
\* response are the same value, both absent or both the same text.
C25_PromptAndResponseSummary ==
    (/\ answered /\ http.status = 200
     /\ is_topic_thread(pack) /\ ~Truthy(pack.topicSummary)
     /\ primary_calls # <<>>)
    => prompt_summary(sent_system(primary_calls[Len(primary_calls)]))
         = http.body.topicSummary

\* The persona whose configuration the router-first handler uses for a
\* requested agent id.
persona_used(agent) ==
    IF agent \in DOMAIN AGENTS THEN agent ELSE DEFAULT_AGENT

\* C26: in the router-first handler, the agent of a 200 response is a
\* persona of the catalogue, and the model, system prompt, temperature and
\* max tokens of the primary call are those of that persona's
\* configuration.
C26_ReportedPersonaUsed ==
    (server = "server_llm" /\ answered /\ http.status = 200)
    => /\ http.body.agent \in DOMAIN AGENTS
       /\ http.body.agent = persona_used(data.agent)
       /\ LET c == primary_calls[Len(primary_calls)]
              cfg == AGENTS[persona_used(data.agent)]
          IN  /\ c.backend = "litellm" => c.model = cfg.model
              /\ c.system[1] = cfg.system_prompt
              /\ c.temperature = cfg.temperature
              /\ c.max_tokens = cfg.max_tokens

====
